---- MODULE Spec2Model ----
(***************************************************************************)
(* Model of satellite_imagery_aesthetics/server.py: the startup load of    *)
(* the olog data file into four module-level tables and the seven tool     *)
(* handlers that read them.                                                *)
(*                                                                         *)
(* A Python str is a sequence of chunks of text.  Identifiers (table keys  *)
(* and tool arguments) are written one character per chunk, so that        *)
(* str.lower and str.replace act on them character by character.  A dict   *)
(* with str keys fixed by the code is a record; a dict keyed by            *)
(* identifiers (the four tables) is a sequence of <<key, value>> pairs in  *)
(* insertion order.                                                        *)
(***************************************************************************)
EXTENDS Integers, Sequences, FiniteSets, TLC

VARIABLES file, pc, imagery_profiles, altitude_perspectives,
          feature_emphasis, aesthetic_strength, response, earlier

tables == <<imagery_profiles, altitude_perspectives, feature_emphasis,
            aesthetic_strength>>
vars == <<file, pc, imagery_profiles, altitude_perspectives,
          feature_emphasis, aesthetic_strength, response, earlier>>

----------------------------------------------------------------------------
(* Python built-ins used by the handlers *)

UpperChars ==
  <<"A","B","C","D","E","F","G","H","I","J","K","L","M",
    "N","O","P","Q","R","S","T","U","V","W","X","Y","Z">>

LowerChars ==
  <<"a","b","c","d","e","f","g","h","i","j","k","l","m",
    "n","o","p","q","r","s","t","u","v","w","x","y","z">>

ToLower ==
  [c \in {UpperChars[i] : i \in 1..Len(UpperChars)} |->
     LowerChars[CHOOSE i \in 1..Len(UpperChars) : UpperChars[i] = c]]

\* str.lower on one character
lower_char(c) == IF c \in DOMAIN ToLower THEN ToLower[c] ELSE c

\* s.lower()
lower(s) == [i \in 1..Len(s) |-> lower_char(s[i])]

\* s.replace(old, new) for one-character old and new: every occurrence
replace(s, old, new) == [i \in 1..Len(s) |-> IF s[i] = old THEN new ELSE s[i]]

\* a mutant of normalize: also strips surrounding spaces
RECURSIVE strip_spaces(_)
strip_spaces(s) ==
  IF s = <<>> THEN s
  ELSE IF Head(s) = " " THEN strip_spaces(Tail(s))
  ELSE IF s[Len(s)] = " " THEN strip_spaces(SubSeq(s, 1, Len(s) - 1))
  ELSE s

normalize_trimming(s) == replace(lower(strip_spaces(s)), " ", "_")

\* x.lower().replace(" ", "_")
normalize(s) == replace(lower(s), " ", "_")

\* the dict.keys() of a table, in insertion order
dict_keys(d) == [i \in 1..Len(d) |-> d[i][1]]

\* key in d
dict_has(d, k) == \E i \in 1..Len(d) : d[i][1] = k

\* d[key], for a key in d
dict_item(d, k) == d[CHOOSE i \in 1..Len(d) : d[i][1] = k][2]

None == [none |-> TRUE]

\* d.get(key): None when the key is absent
dict_get(d, k) == IF dict_has(d, k) THEN dict_item(d, k) ELSE None

\* record.get(field, default) on a record of the data file
record_get(r, field, default) == IF field \in DOMAIN r THEN r[field] ELSE default

\* truth value of the result of d.get(key): None and {} are false
truthy(v) == v # None /\ DOMAIN v # {}

\* a mutant of slice_to: seq[:n + 1]
slice_through(seq, n) == SubSeq(seq, 1, IF n + 1 < Len(seq) THEN n + 1 ELSE Len(seq))

\* seq[:n]
slice_to(seq, n) ==
  LET stop == IF n >= 0 THEN (IF n < Len(seq) THEN n ELSE Len(seq))
              ELSE (IF Len(seq) + n > 0 THEN Len(seq) + n ELSE 0)
  IN  SubSeq(seq, 1, stop)

\* {name: value for name, value in pairs}: a later pair of the same name
\* overwrites the value and keeps the first position
RECURSIVE dict_of(_)
dict_of(pairs) ==
  IF pairs = <<>> THEN <<>>
  ELSE LET init == dict_of(SubSeq(pairs, 1, Len(pairs) - 1))
           last == pairs[Len(pairs)]
       IN  IF dict_has(init, last[1])
           THEN [i \in 1..Len(init) |->
                   IF init[i][1] = last[1] THEN last ELSE init[i]]
           ELSE Append(init, last)

----------------------------------------------------------------------------
(* The data file ologs/imagery_profiles.yaml *)

ImageryTypes ==
  << <<"f","a","l","s","e","_","c","o","l","o","r","_","i","n","f","r","a","r","e","d">>,
     <<"t","r","u","e","_","c","o","l","o","r","_","r","g","b">>,
     <<"t","h","e","r","m","a","l","_","i","n","f","r","a","r","e","d">>,
     <<"s","y","n","t","h","e","t","i","c","_","a","p","e","r","t","u","r","e","_","r","a","d","a","r">>,
     <<"l","i","d","a","r","_","e","l","e","v","a","t","i","o","n">>,
     <<"m","u","l","t","i","s","p","e","c","t","r","a","l","_","a","g","r","i","c","u","l","t","u","r","e">> >>

Perspectives ==
  << <<"o","r","b","i","t","a","l">>,
     <<"h","i","g","h","_","a","l","t","i","t","u","d","e">>,
     <<"m","e","d","i","u","m","_","a","l","t","i","t","u","d","e">>,
     <<"l","o","w","_","a","l","t","i","t","u","d","e">> >>

EmphasisTypes ==
  << <<"n","a","t","u","r","a","l">>,
     <<"u","r","b","a","n">>,
     <<"a","b","s","t","r","a","c","t">>,
     <<"m","i","x","e","d">> >>

Strengths ==
  << <<"s","u","b","t","l","e">>,
     <<"b","a","l","a","n","c","e","d">>,
     <<"s","t","r","o","n","g">> >>

\* aesthetic_strength[...]["characteristics"]
CharacteristicCounts == <<2, 4, 6>>

\* the text of one field of one record: non-empty, and written here as the
\* field's path in the file
FieldText(table, id, field) == <<table, ":">> \o id \o <<":", field>>

ProfileRecord(id) ==
  [name        |-> FieldText("imagery_profiles", id, "name"),
   structure   |-> FieldText("imagery_profiles", id, "structure"),
   material    |-> FieldText("imagery_profiles", id, "material"),
   color       |-> FieldText("imagery_profiles", id, "color"),
   texture     |-> FieldText("imagery_profiles", id, "texture"),
   composition |-> FieldText("imagery_profiles", id, "composition"),
   style       |-> FieldText("imagery_profiles", id, "style"),
   quality     |-> FieldText("imagery_profiles", id, "quality"),
   mood        |-> FieldText("imagery_profiles", id, "mood"),
   examples    |-> FieldText("imagery_profiles", id, "examples")]

PerspectiveRecord(id) ==
  [description |-> FieldText("altitude_perspectives", id, "description"),
   scale       |-> FieldText("altitude_perspectives", id, "scale"),
   context     |-> FieldText("altitude_perspectives", id, "context")]

EmphasisRecord(id) ==
  [focus |-> FieldText("feature_emphasis", id, "focus")]

StrengthRecord(i) ==
  [characteristics |-> CharacteristicCounts[i],
   approach        |-> FieldText("aesthetic_strength", Strengths[i], "approach")]

\* the document the shipped file parses to
Olog ==
  [imagery_profiles |->
     [i \in 1..Len(ImageryTypes) |-> <<ImageryTypes[i], ProfileRecord(ImageryTypes[i])>>],
   altitude_perspectives |->
     [i \in 1..Len(Perspectives) |-> <<Perspectives[i], PerspectiveRecord(Perspectives[i])>>],
   feature_emphasis |->
     [i \in 1..Len(EmphasisTypes) |-> <<EmphasisTypes[i], EmphasisRecord(EmphasisTypes[i])>>],
   aesthetic_strength |->
     [i \in 1..Len(Strengths) |-> <<Strengths[i], StrengthRecord(i)>>]]

\* the four top-level keys, in the order the module reads them
TopLevelKeys ==
  <<"imagery_profiles", "altitude_perspectives", "feature_emphasis",
    "aesthetic_strength">>

TopLevelKeySet == {TopLevelKeys[i] : i \in 1..Len(TopLevelKeys)}

\* the shipped document cut down to the top-level keys K
Document(K) == [k \in K |-> Olog[k]]

\* the conditions the file at yaml_path can be in when the process starts:
\* absent, not parseable as YAML, empty (parses to None), or a mapping
\* holding some of the top-level keys
Files ==
  {[kind |-> "missing"], [kind |-> "malformed"], [kind |-> "empty"]}
  \cup {[kind |-> "mapping", doc |-> Document(K)] : K \in SUBSET TopLevelKeySet}

----------------------------------------------------------------------------
(* Module body: lines 8-16 *)

NotLoaded == <<>>

NoResponse == [op |-> "none", args |-> <<>>, out |-> None]

\* a mutant of Subscript: olog.get(key), which yields an empty table for an
\* absent key instead of raising
SubscriptOrEmpty(f, i) == f.kind = "mapping"

\* olog[TopLevelKeys[i]] is reached and does not raise: open and safe_load
\* succeeded, olog is a mapping and holds that key and those read before it
Subscript(f, i) ==
  /\ f.kind = "mapping"
  /\ \A j \in 1..i : TopLevelKeys[j] \in DOMAIN f.doc

\* the value bound to the i-th module-level table: the file's value under
\* the key once the subscript is reached and succeeds (a lookup that tolerated
\* an absent key would bind an empty table)
Bound(f, i) ==
  IF ~Subscript(f, i) THEN NotLoaded
  ELSE IF TopLevelKeys[i] \in DOMAIN f.doc
       THEN f.doc[TopLevelKeys[i]]
       ELSE <<>>

Init ==
  /\ file \in Files
  /\ pc = "start"
  /\ imagery_profiles = NotLoaded
  /\ altitude_perspectives = NotLoaded
  /\ feature_emphasis = NotLoaded
  /\ aesthetic_strength = NotLoaded
  /\ response = NoResponse
  /\ earlier = NoResponse

\* importing the module: an exception in the module body ends the process
\* before any tool is registered or mcp.run() is reached
Load ==
  /\ pc = "start"
  /\ imagery_profiles' = Bound(file, 1)
  /\ altitude_perspectives' = Bound(file, 2)
  /\ feature_emphasis' = Bound(file, 3)
  /\ aesthetic_strength' = Bound(file, 4)
  /\ pc' = IF Subscript(file, Len(TopLevelKeys)) THEN "serving" ELSE "failed"
  /\ UNCHANGED <<file, response, earlier>>

----------------------------------------------------------------------------
(* Tool handlers: the value each returns, read from the current tables *)

\* json.dumps(obj): the JSON document a client parses back
json_dumps(obj) == [json |-> obj]

\* text.strip() on a text held as a sequence of lines: the blank lines at
\* both ends go
RECURSIVE strip(_)
strip(lines) ==
  IF lines = <<>> THEN lines
  ELSE IF Head(lines) = <<>> THEN strip(Tail(lines))
  ELSE IF lines[Len(lines)] = <<>> THEN strip(SubSeq(lines, 1, Len(lines) - 1))
  ELSE lines

list_imagery_types ==
  LET types == dict_keys(imagery_profiles)
  IN  json_dumps([imagery_types |-> types, count |-> Len(types)])

\* a mutant of get_imagery_profile: the lookup skips normalization
get_imagery_profile_raw(imagery_type) ==
  IF ~dict_has(imagery_profiles, imagery_type)
  THEN json_dumps([error     |-> <<"Unknown imagery type: ">> \o imagery_type,
                   available |-> dict_keys(imagery_profiles)])
  ELSE json_dumps([imagery_type |-> imagery_type,
                   profile      |-> dict_item(imagery_profiles, imagery_type)])

get_imagery_profile(imagery_type) ==
  LET imagery_type_normalized == normalize(imagery_type)
  IN  IF ~dict_has(imagery_profiles, imagery_type_normalized)
      THEN json_dumps([error     |-> <<"Unknown imagery type: ">> \o imagery_type,
                       available |-> dict_keys(imagery_profiles)])
      ELSE json_dumps([imagery_type |-> imagery_type_normalized,
                       profile      |-> dict_item(imagery_profiles,
                                                  imagery_type_normalized)])

list_altitude_perspectives ==
  json_dumps([perspectives |-> dict_keys(altitude_perspectives),
              details      |-> dict_of(altitude_perspectives)])

list_feature_emphasis_options ==
  json_dumps([options |-> dict_keys(feature_emphasis),
              details |-> dict_of(feature_emphasis)])

list_aesthetic_strengths ==
  json_dumps([strengths |-> dict_keys(aesthetic_strength),
              details   |-> dict_of(aesthetic_strength)])

\* a mutant of validation_errors: an elif chain, which stops at the first
\* unknown argument
validation_errors_first(imagery_type, altitude, feature_emphasis_type, strength) ==
  IF ~dict_has(imagery_profiles, normalize(imagery_type))
  THEN << <<"Unknown imagery type: ">> \o imagery_type >>
  ELSE IF ~dict_has(altitude_perspectives, normalize(altitude))
  THEN << <<"Unknown altitude: ">> \o altitude >>
  ELSE IF ~dict_has(feature_emphasis, normalize(feature_emphasis_type))
  THEN << <<"Unknown feature emphasis: ">> \o feature_emphasis_type >>
  ELSE IF ~dict_has(aesthetic_strength, normalize(strength))
  THEN << <<"Unknown aesthetic strength: ">> \o strength >>
  ELSE <<>>

\* the errors list after the four membership tests, each appending its own
\* message
validation_errors(imagery_type, altitude, feature_emphasis_type, strength) ==
  (IF ~dict_has(imagery_profiles, normalize(imagery_type))
   THEN << <<"Unknown imagery type: ">> \o imagery_type >> ELSE <<>>)
  \o
  (IF ~dict_has(altitude_perspectives, normalize(altitude))
   THEN << <<"Unknown altitude: ">> \o altitude >> ELSE <<>>)
  \o
  (IF ~dict_has(feature_emphasis, normalize(feature_emphasis_type))
   THEN << <<"Unknown feature emphasis: ">> \o feature_emphasis_type >> ELSE <<>>)
  \o
  (IF ~dict_has(aesthetic_strength, normalize(strength))
   THEN << <<"Unknown aesthetic strength: ">> \o strength >> ELSE <<>>)

all_characteristics(profile) ==
  << <<"structure", profile.structure>>,
     <<"material", profile.material>>,
     <<"color", profile.color>>,
     <<"texture", profile.texture>>,
     <<"composition", profile.composition>>,
     <<"style", profile.style>>,
     <<"quality", profile.quality>>,
     <<"mood", profile.mood>> >>

output_format ==
  <<"60-80 words, natural sentence flow, vivid artistic language, ending with 'highly detailed, 8k, satellite imagery aesthetic'">>

mapped_parameters(imagery_type_normalized, altitude_normalized, feature_normalized, strength_normalized) ==
  LET profile == dict_item(imagery_profiles, imagery_type_normalized)
      altitude_data == dict_item(altitude_perspectives, altitude_normalized)
      feature_data == dict_item(feature_emphasis, feature_normalized)
      strength_data == dict_item(aesthetic_strength, strength_normalized)
      characteristic_count == strength_data.characteristics
      selected_characteristics ==
        slice_to(all_characteristics(profile), characteristic_count)
  IN  [imagery_type |-> imagery_type_normalized,
       profile_name |-> profile.name,
       altitude_perspective |->
         [type        |-> altitude_normalized,
          description |-> altitude_data.description,
          scale       |-> altitude_data.scale,
          context     |-> altitude_data.context],
       feature_emphasis |->
         [type  |-> feature_normalized,
          focus |-> feature_data.focus],
       aesthetic_strength |->
         [type                 |-> strength_normalized,
          approach             |-> strength_data.approach,
          characteristic_count |-> characteristic_count],
       selected_characteristics |-> dict_of(selected_characteristics),
       all_available_characteristics |-> dict_of(all_characteristics(profile)),
       examples |-> profile.examples,
       output_format |-> output_format]

\* a mutant of map_satellite_parameters: an unknown strength falls back to
\* the second level
map_satellite_parameters_default(imagery_type, altitude, feature_emphasis_type, strength) ==
  LET level == IF dict_has(aesthetic_strength, normalize(strength))
               THEN strength ELSE aesthetic_strength[2][1]
      errors == validation_errors(imagery_type, altitude,
                                  feature_emphasis_type, level)
  IN  IF errors # <<>>
      THEN json_dumps([errors |-> errors])
      ELSE json_dumps(mapped_parameters(normalize(imagery_type),
                                        normalize(altitude),
                                        normalize(feature_emphasis_type),
                                        normalize(level)))

\* a mutant of map_satellite_parameters: the altitude is looked up as given
map_satellite_parameters_raw_altitude(imagery_type, altitude, feature_emphasis_type, strength) ==
  LET errors == validation_errors(imagery_type, altitude,
                                  feature_emphasis_type, strength)
  IN  IF errors # <<>> \/ ~dict_has(altitude_perspectives, altitude)
      THEN json_dumps([errors |->
             IF errors # <<>> THEN errors
             ELSE << <<"Unknown altitude: ">> \o altitude >>])
      ELSE json_dumps(mapped_parameters(normalize(imagery_type),
                                        normalize(altitude),
                                        normalize(feature_emphasis_type),
                                        normalize(strength)))

map_satellite_parameters(imagery_type, altitude, feature_emphasis_type, strength) ==
  LET errors == validation_errors(imagery_type, altitude,
                                  feature_emphasis_type, strength)
  IN  IF errors # <<>>
      THEN json_dumps([errors |-> errors])
      ELSE json_dumps(mapped_parameters(normalize(imagery_type),
                                        normalize(altitude),
                                        normalize(feature_emphasis_type),
                                        normalize(strength)))

Unknown == <<"Unknown">>

guidance(profile, altitude_data, feature_data, strength_data) ==
  << <<>>,
     <<"SATELLITE IMAGERY ENHANCEMENT GUIDANCE">>,
     <<>>,
     <<"Imagery Type: ">> \o profile.name,
     <<"Altitude Perspective: ">> \o
       (IF truthy(altitude_data)
        THEN record_get(altitude_data, "description", Unknown) ELSE Unknown),
     <<"Feature Emphasis: ">> \o
       (IF truthy(feature_data)
        THEN record_get(feature_data, "focus", Unknown) ELSE Unknown),
     <<"Aesthetic Strength: ">> \o
       (IF truthy(strength_data)
        THEN record_get(strength_data, "approach", Unknown) ELSE Unknown),
     <<>>,
     <<"Key Visual Elements:">>,
     <<"- Colors: ">> \o profile.color,
     <<"- Textures: ">> \o profile.texture,
     <<"- Mood: ">> \o profile.mood,
     <<>>,
     <<"Examples to draw from: ">> \o profile.examples,
     <<>>,
     <<"Remember:">>,
     <<"1. Preserve the user's core concept completely">>,
     <<"2. Use vivid, artistic language">>,
     <<"3. Emphasize HOW it looks (colors, patterns, perspective), not WHAT it is">>,
     <<"4. End with \"highly detailed, 8k, satellite imagery aesthetic\"">>,
     <<"5. Never add subjects the user didn't request">>,
     <<>> >>

\* a mutant of get_enhancement_guidance: an unknown imagery type falls back to
\* the first profile
get_enhancement_guidance_default(imagery_type, altitude, feature_emphasis_type, strength) ==
  [text |->
     strip(guidance(IF dict_has(imagery_profiles, normalize(imagery_type))
                    THEN dict_item(imagery_profiles, normalize(imagery_type))
                    ELSE imagery_profiles[1][2],
                    dict_get(altitude_perspectives, normalize(altitude)),
                    dict_get(feature_emphasis, normalize(feature_emphasis_type)),
                    dict_get(aesthetic_strength, normalize(strength))))]

\* a mutant of get_enhancement_guidance: table[key] in place of
\* table.get(key), so that any unknown argument fails the call
get_enhancement_guidance_strict(imagery_type, altitude, feature_emphasis_type, strength) ==
  IF ~dict_has(imagery_profiles, normalize(imagery_type))
  THEN json_dumps([error |-> <<"Unknown imagery type: ">> \o imagery_type])
  ELSE IF ~dict_has(altitude_perspectives, normalize(altitude))
  THEN json_dumps([error |-> <<"Unknown altitude: ">> \o altitude])
  ELSE IF ~dict_has(feature_emphasis, normalize(feature_emphasis_type))
  THEN json_dumps([error |-> <<"Unknown feature emphasis: ">> \o feature_emphasis_type])
  ELSE IF ~dict_has(aesthetic_strength, normalize(strength))
  THEN json_dumps([error |-> <<"Unknown aesthetic strength: ">> \o strength])
  ELSE [text |->
          strip(guidance(dict_item(imagery_profiles, normalize(imagery_type)),
                         dict_item(altitude_perspectives, normalize(altitude)),
                         dict_item(feature_emphasis, normalize(feature_emphasis_type)),
                         dict_item(aesthetic_strength, normalize(strength))))]

get_enhancement_guidance(imagery_type, altitude, feature_emphasis_type, strength) ==
  LET imagery_type_normalized == normalize(imagery_type)
      altitude_normalized == normalize(altitude)
      feature_normalized == normalize(feature_emphasis_type)
      strength_normalized == normalize(strength)
  IN  IF ~dict_has(imagery_profiles, imagery_type_normalized)
      THEN json_dumps([error |-> <<"Unknown imagery type: ">> \o imagery_type])
      ELSE [text |->
              strip(guidance(dict_item(imagery_profiles, imagery_type_normalized),
                             dict_get(altitude_perspectives, altitude_normalized),
                             dict_get(feature_emphasis, feature_normalized),
                             dict_get(aesthetic_strength, strength_normalized)))]

----------------------------------------------------------------------------
(* Arguments the client sends *)

\* how many leading characters of a key the client may capitalise
MaxUpper == 1

upper_char(c) ==
  IF \E i \in 1..Len(LowerChars) : LowerChars[i] = c
  THEN UpperChars[CHOOSE i \in 1..Len(LowerChars) : LowerChars[i] = c]
  ELSE c

\* the key with its first n characters in upper case
UpperPrefix(k, n) == [i \in 1..Len(k) |-> IF i <= n THEN upper_char(k[i]) ELSE k[i]]

\* the key in upper case, with spaces for underscores
UpperSpaced(k) == [i \in 1..Len(k) |-> IF k[i] = "_" THEN " " ELSE upper_char(k[i])]

\* spellings of the key that differ from it in case and spaces only
Respellings(k) == {UpperPrefix(k, n) : n \in 0..MaxUpper} \cup {UpperSpaced(k)}

\* near misses: a trailing space, a leading space, the last character dropped
Misspellings(k) == {k \o <<" ">>, <<" ">> \o k, SubSeq(k, 1, Len(k) - 1)}

Range(seq) == {seq[i] : i \in 1..Len(seq)}

TrueColorRGB == <<"T","r","u","e"," ","C","o","l","o","r"," ","R","G","B">>
NotAType == <<"N","o","t"," ","A"," ","T","y","p","e">>
not_a_type == <<"n","o","t","_","a","_","t","y","p","e">>
not_an_altitude == <<"n","o","t","_","a","n","_","a","l","t","i","t","u","d","e">>

ImageryInputs ==
  Range(ImageryTypes) \cup Respellings(ImageryTypes[2])
  \cup Misspellings(ImageryTypes[2])
  \cup {TrueColorRGB, NotAType, not_a_type, <<>>}

AltitudeInputs ==
  Range(Perspectives) \cup Respellings(Perspectives[2])
  \cup Misspellings(Perspectives[2]) \cup {not_an_altitude, <<>>}

FeatureInputs ==
  Range(EmphasisTypes) \cup Respellings(EmphasisTypes[1])
  \cup Misspellings(EmphasisTypes[1]) \cup {<<"x">>}

StrengthInputs ==
  Range(Strengths) \cup Respellings(Strengths[3])
  \cup Misspellings(Strengths[3]) \cup {<<"y">>}

\* the few arguments a client repeats
ImagerySamples ==
  {UpperPrefix(ImageryTypes[2], n) : n \in 0..MaxUpper} \cup {TrueColorRGB, not_a_type}

AltitudeSamples == {Perspectives[1], not_an_altitude}

FeatureSamples == {EmphasisTypes[1], <<"x">>}

StrengthSamples == {Strengths[3], <<"y">>}

----------------------------------------------------------------------------
(* Tool calls *)

\* a mutant of ReadOnly: the handler consumes the first imagery profile
PopsProfile ==
  /\ imagery_profiles' = Tail(imagery_profiles)
  /\ UNCHANGED <<altitude_perspectives, feature_emphasis, aesthetic_strength>>

\* no handler assigns to, or updates in place, any of the four tables
ReadOnly == UNCHANGED tables

\* the tools are registered and the transport is free to take a call
Idle == pc = "serving" /\ response = NoResponse

\* the transport takes one call at a time: it runs the handler and holds what
\* the handler returns until it is sent
Serve(op, args, out) ==
  /\ response' = [op |-> op, args |-> args, out |-> out]
  /\ ReadOnly
  /\ UNCHANGED <<file, pc, earlier>>

CallListImageryTypes ==
  Idle /\ Serve("list_imagery_types", <<>>, list_imagery_types)

GetImageryProfile(I) ==
  Idle /\ \E imagery_type \in I :
    Serve("get_imagery_profile", <<imagery_type>>,
          get_imagery_profile(imagery_type))

CallListAltitudePerspectives ==
  Idle /\ Serve("list_altitude_perspectives", <<>>, list_altitude_perspectives)

CallListFeatureEmphasisOptions ==
  Idle /\ Serve("list_feature_emphasis_options", <<>>, list_feature_emphasis_options)

CallListAestheticStrengths ==
  Idle /\ Serve("list_aesthetic_strengths", <<>>, list_aesthetic_strengths)

MapSatelliteParameters(I, A, F, S) ==
  Idle /\ \E imagery_type \in I, altitude \in A, feature_emphasis_type \in F,
             strength \in S :
    Serve("map_satellite_parameters",
          <<imagery_type, altitude, feature_emphasis_type, strength>>,
          map_satellite_parameters(imagery_type, altitude,
                                   feature_emphasis_type, strength))

GetEnhancementGuidance(I, A, F, S) ==
  Idle /\ \E imagery_type \in I, altitude \in A, feature_emphasis_type \in F,
             strength \in S :
    Serve("get_enhancement_guidance",
          <<imagery_type, altitude, feature_emphasis_type, strength>>,
          get_enhancement_guidance(imagery_type, altitude,
                                   feature_emphasis_type, strength))

\* the transport sends the held response and is free for the next call; a
\* client that keeps the response can compare a later one with it
Deliver(Keep) ==
  /\ pc = "serving"
  /\ response # NoResponse
  /\ response' = NoResponse
  /\ \E keep \in Keep : earlier' = IF keep THEN response ELSE earlier
  /\ UNCHANGED <<file, pc, tables>>

CallGetImageryProfile == GetImageryProfile(ImageryInputs)
CallMapSatelliteParameters ==
  MapSatelliteParameters(ImageryInputs, AltitudeInputs, FeatureInputs,
                         StrengthInputs)
CallGetEnhancementGuidance ==
  GetEnhancementGuidance(ImageryInputs, AltitudeInputs, FeatureInputs,
                         StrengthInputs)
Send == Deliver({FALSE})

Next ==
  \/ Load
  \/ CallListImageryTypes
  \/ CallGetImageryProfile
  \/ CallListAltitudePerspectives
  \/ CallListFeatureEmphasisOptions
  \/ CallListAestheticStrengths
  \/ CallMapSatelliteParameters
  \/ CallGetEnhancementGuidance
  \/ Send

Spec == Init /\ [][Next]_vars

\* the same server with a client that repeats a few arguments and keeps
\* responses
RepeatGetImageryProfile == GetImageryProfile(ImagerySamples)
RepeatMapSatelliteParameters ==
  MapSatelliteParameters(ImagerySamples, AltitudeSamples, FeatureSamples,
                         StrengthSamples)
RepeatGetEnhancementGuidance ==
  GetEnhancementGuidance(ImagerySamples, AltitudeSamples, FeatureSamples,
                         StrengthSamples)
SendAndKeep == Deliver(BOOLEAN)

NextRepeat ==
  \/ Load
  \/ CallListImageryTypes
  \/ RepeatGetImageryProfile
  \/ CallListAltitudePerspectives
  \/ CallListFeatureEmphasisOptions
  \/ CallListAestheticStrengths
  \/ RepeatMapSatelliteParameters
  \/ RepeatGetEnhancementGuidance
  \/ SendAndKeep

SpecRepeat == Init /\ [][NextRepeat]_vars

----------------------------------------------------------------------------
(* Vocabulary of the properties *)

\* the argument spells the key: same length and, character by character, the
\* same letter in either case, or a space where the key has an underscore
Spells(x, k) ==
  /\ Len(x) = Len(k)
  /\ \A i \in 1..Len(k) :
       IF x[i] = " " THEN k[i] = "_" ELSE lower_char(x[i]) = k[i]

\* the argument spells a key of the table
Known(x, table) == \E i \in 1..Len(table) : Spells(x, table[i][1])

\* the key the argument spells, and its record
KeyOf(x, table) == table[CHOOSE i \in 1..Len(table) : Spells(x, table[i][1])][1]
RecordOf(x, table) == table[CHOOSE i \in 1..Len(table) : Spells(x, table[i][1])][2]

\* two arguments differ in letter case and in spaces versus underscores only
SameSpelling(x, y) ==
  /\ Len(x) = Len(y)
  /\ \A i \in 1..Len(x) :
       \/ lower_char(x[i]) = lower_char(y[i])
       \/ {x[i], y[i]} = {" ", "_"}

Labels ==
  <<"Unknown imagery type: ", "Unknown altitude: ",
    "Unknown feature emphasis: ", "Unknown aesthetic strength: ">>

CharacteristicNames ==
  <<"structure", "material", "color", "texture", "composition", "style",
    "quality", "mood">>

IsJson(out) == "json" \in DOMAIN out
IsText(out) == "text" \in DOMAIN out
HasErrors(out) == IsJson(out) /\ "errors" \in DOMAIN out.json
HasError(out) == IsJson(out) /\ "error" \in DOMAIN out.json

\* the positions of the arguments that spell no key of their table, ascending
RECURSIVE UnknownFrom(_, _)
UnknownFrom(args, p) ==
  IF p > Len(args) THEN <<>>
  ELSE (IF Known(args[p], tables[p]) THEN <<>> ELSE <<p>>)
       \o UnknownFrom(args, p + 1)

\* the rest of the line of the guidance text that starts with the label
LineAfter(text, label) ==
  Tail(text[CHOOSE i \in 1..Len(text) : text[i] # <<>> /\ text[i][1] = label])

Called(op) == pc = "serving" /\ response.op = op

----------------------------------------------------------------------------
(* C1 *)

\* C1: map_satellite_parameters tests each argument against its own table and
\* reports every unknown one in the same response: the errors list holds
\* exactly one message per argument that spells no key of its table, in the
\* order imagery type, altitude, feature emphasis, strength, and when there is
\* at least one the response holds the errors list and nothing else.
C1_AllErrorsReported ==
  Called("map_satellite_parameters") =>
    LET args == response.args
        bad == UnknownFrom(args, 1)
    IN  IF bad = <<>>
        THEN ~HasErrors(response.out)
        ELSE response.out =
               [json |-> [errors |->
                  [j \in 1..Len(bad) |-> <<Labels[bad[j]]>> \o args[bad[j]]]]]

\* two of the four arguments are unknown, the other two known under another
\* spelling, and both are reported
C1_Witness ==
  /\ Called("map_satellite_parameters")
  /\ response.args[1] = TrueColorRGB
  /\ UnknownFrom(response.args, 1) = <<2, 4>>
  /\ HasErrors(response.out)
  /\ Len(response.out.json.errors) = 2

----------------------------------------------------------------------------
(* C2 *)

\* C2: for four known arguments, selected_characteristics is the first N
\* entries of structure, material, color, texture, composition, style,
\* quality, mood with the profile's texts, N being the matched strength's
\* characteristics count (2 for subtle, 4 for balanced, 6 for strong) and
\* equal to the reported characteristic_count; all_available_characteristics
\* is all 8 entries of that list.
C2_SelectedIsPrefix ==
  (Called("map_satellite_parameters")
     /\ UnknownFrom(response.args, 1) = <<>>) =>
    LET body == response.out.json
        profile == RecordOf(response.args[1], imagery_profiles)
        level == KeyOf(response.args[4], aesthetic_strength)
        N == RecordOf(response.args[4], aesthetic_strength).characteristics
        entry(i) == <<CharacteristicNames[i], profile[CharacteristicNames[i]]>>
    IN  /\ level = Strengths[1] => N = 2
        /\ level = Strengths[2] => N = 4
        /\ level = Strengths[3] => N = 6
        /\ N \in {2, 4, 6}
        /\ body.selected_characteristics = [i \in 1..N |-> entry(i)]
        /\ Len(body.selected_characteristics) = N
        /\ body.aesthetic_strength.characteristic_count = N
        /\ body.all_available_characteristics = [i \in 1..8 |-> entry(i)]
        /\ Len(body.all_available_characteristics) = 8

\* the spec's example: false_color_infrared, orbital, natural, strong selects
\* six characteristics, the last of them style
C2_Witness ==
  /\ Called("map_satellite_parameters")
  /\ response.args = <<ImageryTypes[1], Perspectives[1], EmphasisTypes[1], Strengths[3]>>
  /\ ~HasErrors(response.out)
  /\ Len(response.out.json.selected_characteristics) = 6
  /\ response.out.json.selected_characteristics[6][1] = "style"

----------------------------------------------------------------------------
(* C3 *)

\* C3: get_enhancement_guidance with a known imagery type returns the guidance
\* text whatever the other three arguments are; its Altitude Perspective,
\* Feature Emphasis and Aesthetic Strength lines read "Unknown" exactly when
\* the argument spells no key of its table, and otherwise the matched record's
\* description, focus and approach.
C3_GuidanceDegrades ==
  (Called("get_enhancement_guidance")
     /\ Known(response.args[1], imagery_profiles)) =>
    LET args == response.args
        out == response.out
        reads(label, p, field) ==
          /\ LineAfter(out.text, label) = <<"Unknown">>
               <=> ~Known(args[p], tables[p])
          /\ Known(args[p], tables[p]) =>
               LineAfter(out.text, label) = RecordOf(args[p], tables[p])[field]
    IN  /\ IsText(out)
        /\ ~HasError(out)
        /\ reads("Altitude Perspective: ", 2, "description")
        /\ reads("Feature Emphasis: ", 3, "focus")
        /\ reads("Aesthetic Strength: ", 4, "approach")

\* a known imagery type with an unknown altitude and a known strength: the
\* altitude line reads Unknown and the strength line the approach
C3_Witness ==
  /\ Called("get_enhancement_guidance")
  /\ Known(response.args[1], imagery_profiles)
  /\ ~Known(response.args[2], altitude_perspectives)
  /\ Known(response.args[4], aesthetic_strength)
  /\ IsText(response.out)
  /\ LineAfter(response.out.text, "Altitude Perspective: ") = <<"Unknown">>
  /\ LineAfter(response.out.text, "Aesthetic Strength: ") # <<"Unknown">>

----------------------------------------------------------------------------
(* C4 *)

\* C4: get_imagery_profile returns, for an argument that spells no imagery
\* key, an error payload naming the argument as given and listing every
\* imagery id of the file, and otherwise the key the argument spells together
\* with that key's record as the file holds it.
C4_ProfileOrError ==
  Called("get_imagery_profile") =>
    LET x == response.args[1]
        loaded == file.doc.imagery_profiles
    IN  IF ~Known(x, loaded)
        THEN response.out =
               [json |-> [error     |-> <<"Unknown imagery type: ">> \o x,
                          available |-> [i \in 1..Len(loaded) |-> loaded[i][1]]]]
        ELSE response.out =
               [json |-> [imagery_type |-> KeyOf(x, loaded),
                          profile      |-> RecordOf(x, loaded)]]

\* "True Color RGB" yields the id true_color_rgb and its record
C4_Witness ==
  /\ Called("get_imagery_profile")
  /\ response.args = <<TrueColorRGB>>
  /\ response.out.json.imagery_type = ImageryTypes[2]
  /\ response.out.json.profile = ProfileRecord(ImageryTypes[2])

----------------------------------------------------------------------------
(* C5 *)

\* the response treats the argument at position p as a key of its table
Accepted(p) ==
  LET args == response.args
      out == response.out
  IN  CASE response.op = "get_imagery_profile" -> ~HasError(out)
        [] response.op = "map_satellite_parameters" ->
             \/ ~HasErrors(out)
             \/ \A j \in 1..Len(out.json.errors) :
                  out.json.errors[j] # <<Labels[p]>> \o args[p]
        [] response.op = "get_enhancement_guidance" ->
             IF p = 1 THEN IsText(out)
             ELSE /\ IsText(out)
                  /\ LineAfter(out.text, <<"Altitude Perspective: ",
                                           "Feature Emphasis: ",
                                           "Aesthetic Strength: ">>[p - 1])
                       # <<"Unknown">>

\* the response is a successful one: a profile, a mapping, a guidance text
Succeeded(out) == ~HasError(out) /\ ~HasErrors(out)

\* the arguments of the set that differ from x in spelling only
Alike(x, S) == {y \in S : SameSpelling(x, y)}

\* the tuples of arguments that differ from args in spelling only
Respelled(args) ==
  IF Len(args) = 1
  THEN {<<y>> : y \in Alike(args[1], ImageryInputs)}
  ELSE Alike(args[1], ImageryInputs) \X Alike(args[2], AltitudeInputs)
       \X Alike(args[3], FeatureInputs) \X Alike(args[4], StrengthInputs)

\* what the handler of the held response returns for other arguments
Rerun(args) ==
  CASE response.op = "get_imagery_profile" -> get_imagery_profile(args[1])
    [] response.op = "map_satellite_parameters" ->
         map_satellite_parameters(args[1], args[2], args[3], args[4])
    [] response.op = "get_enhancement_guidance" ->
         get_enhancement_guidance(args[1], args[2], args[3], args[4])

TakesArguments ==
  /\ pc = "serving"
  /\ response.op \in {"get_imagery_profile", "map_satellite_parameters",
                      "get_enhancement_guidance"}

----------------------------------------------------------------------------
(* C6 *)

\* C6: after any sequence of calls the four tables are as the load left them,
\* and a call repeated with the same arguments returns the same output as the
\* earlier one, whatever was called in between.
C6_TablesFrozenCallsRepeatable ==
  /\ pc = "serving" =>
       \A i \in 1..Len(TopLevelKeys) : tables[i] = file.doc[TopLevelKeys[i]]
  /\ (response.op = earlier.op /\ response.args = earlier.args) =>
       response.out = earlier.out

\* a mapping is held for sending while the client keeps the response of an
\* earlier call with the same arguments
C6_Witness ==
  /\ Called("map_satellite_parameters")
  /\ earlier.op = "map_satellite_parameters"
  /\ earlier.args = response.args
  /\ Succeeded(response.out)

----------------------------------------------------------------------------
(* C7 *)

\* C7: get_enhancement_guidance with an imagery type that spells no imagery
\* key returns an error payload naming the type as given and no guidance text,
\* whether or not the other three arguments are known.
C7_UnknownImageryIsError ==
  (Called("get_enhancement_guidance")
     /\ ~Known(response.args[1], imagery_profiles)) =>
    response.out =
      [json |-> [error |-> <<"Unknown imagery type: ">> \o response.args[1]]]

\* an unknown imagery type with the other three arguments known
C7_Witness ==
  /\ Called("get_enhancement_guidance")
  /\ ~Known(response.args[1], imagery_profiles)
  /\ Known(response.args[2], altitude_perspectives)
  /\ Known(response.args[3], feature_emphasis)
  /\ Known(response.args[4], aesthetic_strength)
  /\ HasError(response.out)

----------------------------------------------------------------------------
(* C8 *)

\* the normalized ids a client can send for each argument
NormalizedIds(S) == {normalize(x) : x \in S}

\* the 4-tuples of normalized ids for which map_satellite_parameters returns a
\* mapping
MappedTuples ==
  {a \in NormalizedIds(ImageryInputs) \X NormalizedIds(AltitudeInputs)
         \X NormalizedIds(FeatureInputs) \X NormalizedIds(StrengthInputs) :
     ~HasErrors(map_satellite_parameters(a[1], a[2], a[3], a[4]))}

\* C8: the loaded tables hold exactly 6 imagery types, 4 altitude
\* perspectives, 4 feature-emphasis options and 3 aesthetic strengths, and the
\* distinct 4-tuples of normalized ids for which map_satellite_parameters
\* returns a mapping number 6 x 4 x 4 x 3 = 288.  (The count reads the tables
\* alone; it is taken whenever the server is free to take a call.)
C8_TableSizesAndCombinations ==
  /\ pc = "serving" =>
       /\ Cardinality(Range(dict_keys(imagery_profiles))) = 6
       /\ Cardinality(Range(dict_keys(altitude_perspectives))) = 4
       /\ Cardinality(Range(dict_keys(feature_emphasis))) = 4
       /\ Cardinality(Range(dict_keys(aesthetic_strength))) = 3
       /\ Len(imagery_profiles) = 6
       /\ Len(altitude_perspectives) = 4
       /\ Len(feature_emphasis) = 4
       /\ Len(aesthetic_strength) = 3
  /\ Idle =>
       Cardinality(MappedTuples) =
         Len(imagery_profiles) * Len(altitude_perspectives)
           * Len(feature_emphasis) * Len(aesthetic_strength)
  /\ Idle => Cardinality(MappedTuples) = 288

\* the server is free to take a call, and the ids a client can send include
\* some that are in no table
C8_Witness ==
  /\ Idle
  /\ Cardinality(NormalizedIds(StrengthInputs)) > 3
  /\ Cardinality(NormalizedIds(ImageryInputs)) > 6
  /\ Cardinality(MappedTuples) = 288

----------------------------------------------------------------------------
(* C9 *)

\* the file is missing, is not a YAML mapping, or lacks a top-level key
Unloadable(f) ==
  \/ f.kind \in {"missing", "malformed", "empty"}
  \/ f.kind = "mapping" /\ \E k \in TopLevelKeySet : k \notin DOMAIN f.doc

\* C9: a startup load failure is fatal: with the data file missing, malformed
\* or lacking any one of the four top-level keys, the load fails before any
\* operation is available, no operation ever returns a response, and the
\* process does not recover.
C9_LoadFailureIsFatal ==
  Unloadable(file) =>
    /\ pc \in {"start", "failed"}
    /\ response = NoResponse
    /\ earlier = NoResponse

\* the load has failed on a file that lacks exactly one top-level key, the
\* last one read
C9_Witness ==
  /\ pc = "failed"
  /\ file.kind = "mapping"
  /\ DOMAIN file.doc = TopLevelKeySet \ {"aesthetic_strength"}

----------------------------------------------------------------------------
(* C10 *)

\* C10: the operations agree on which arguments are valid.
\* map_satellite_parameters returns a mapping exactly when get_imagery_profile
\* returns no error for the same imagery type and the normalized altitude,
\* feature emphasis and strength are in the id lists of
\* list_altitude_perspectives, list_feature_emphasis_options and
\* list_aesthetic_strengths; get_enhancement_guidance returns an error payload
\* exactly when get_imagery_profile does; so for a known imagery type and an
\* unknown other argument map_satellite_parameters reports errors while
\* get_enhancement_guidance returns the guidance text.
C10_OperationsAgree ==
  (pc = "serving" /\ response.op \in {"map_satellite_parameters",
                                      "get_enhancement_guidance"}) =>
    LET a == response.args
        mapped == map_satellite_parameters(a[1], a[2], a[3], a[4])
        guided == get_enhancement_guidance(a[1], a[2], a[3], a[4])
        profiled == get_imagery_profile(a[1])
        listed ==
          /\ normalize(a[2]) \in Range(list_altitude_perspectives.json.perspectives)
          /\ normalize(a[3]) \in Range(list_feature_emphasis_options.json.options)
          /\ normalize(a[4]) \in Range(list_aesthetic_strengths.json.strengths)
    IN  /\ response.op = "map_satellite_parameters" =>
             (~HasErrors(response.out) <=> (~HasError(profiled) /\ listed))
        /\ response.op = "get_enhancement_guidance" =>
             (HasError(response.out) <=> HasError(profiled))
        /\ (~HasError(profiled) /\ ~listed) =>
             (HasErrors(mapped) /\ IsText(guided) /\ ~HasError(guided))

\* guidance text is held for arguments that map_satellite_parameters rejects
C10_Witness ==
  /\ Called("get_enhancement_guidance")
  /\ IsText(response.out)
  /\ HasErrors(map_satellite_parameters(response.args[1], response.args[2],
                                        response.args[3], response.args[4]))

====
